---- MODULE Spec2Model ----
(***************************************************************************)
(* State-machine model of Serial::SerialImpl (src/src/impl/unix.cc): the   *)
(* handle lifecycle, port configuration, the control-line operations and   *)
(* the deadline-bounded read and write loops, together with the part of    *)
(* the operating system they talk to (descriptor table, tty attributes,    *)
(* input queue, clock).                                                    *)
(*                                                                         *)
(* Time: the clock is an integer number of milliseconds; a timespec is the *)
(* record [tv_sec, tv_nsec] with tv_nsec in nanoseconds, as in the code.   *)
(* The build modelled is Linux with TIOCSSERIAL (lines 369-380).           *)
(***************************************************************************)
EXTENDS Integers, Sequences, FiniteSets, TLC

(* ------------------------------ bounds --------------------------------- *)
MaxSize  == 2      \* largest size / length a caller requests
MaxFds   == 2      \* size of the process descriptor table left for ports
MaxEintr == 1      \* most interrupted ::open attempts in one open()
MaxInq   == 2      \* capacity of the tty input queue
MaxClock == 400    \* latest clock value (ms) at which a call may start
MaxThreads == 3    \* threads that share the handle

Millis == {0, 400}          \* values a Timeout field is set to (ms)
Delays == {200}             \* durations the environment lets pass (ms)

Ports        == {"", "/dev/ttyS0"}
Baudrates    == {9600, 250000}
Bytesizes    == {"eightbits", "badbits"}
Parities     == {"parity_none", "parity_odd", "parity_mark"}
Stopbitses   == {"stopbits_one", "badstop"}
Flowcontrols == {"flowcontrol_none", "flowcontrol_software", "flowcontrol_hardware"}

(* -------------------------- program constants -------------------------- *)
NsecPerSec   == 1000000000
NsecPerMilli == 1000000
MillisPerSec == NsecPerSec \div NsecPerMilli

\* The rates with a B<rate> constant in <termios.h> on Linux (lines 247-355).
StandardBauds ==
  {0, 50, 75, 110, 134, 150, 200, 300, 600, 1200, 1800, 2400, 4800, 9600,
   19200, 38400, 57600, 115200, 230400, 460800, 921600, 1000000, 1152000,
   1500000, 2000000, 2500000, 3000000, 3500000, 4000000}

(* --------------------------- timespec functions ------------------------ *)
RECURSIVE normalize(_)
normalize(ts) ==
  IF ts.tv_nsec < 0
    THEN normalize([tv_sec |-> ts.tv_sec - 1, tv_nsec |-> ts.tv_nsec + NsecPerSec])
  ELSE IF ts.tv_nsec >= NsecPerSec
    THEN normalize([tv_sec |-> ts.tv_sec + 1, tv_nsec |-> ts.tv_nsec - NsecPerSec])
  ELSE ts

timespec_now(clk) ==
  [tv_sec |-> clk \div MillisPerSec, tv_nsec |-> (clk % MillisPerSec) * NsecPerMilli]

timespec_add(a, b) ==
  normalize([tv_sec |-> a.tv_sec + b.tv_sec, tv_nsec |-> a.tv_nsec + b.tv_nsec])

timespec_sub(a, b) ==
  normalize([tv_sec |-> a.tv_sec - b.tv_sec, tv_nsec |-> a.tv_nsec - b.tv_nsec])

timespec_mul(ts, mul) ==
  normalize([tv_sec |-> ts.tv_sec * mul, tv_nsec |-> ts.tv_nsec * mul])

min(a, b) ==
  IF a.tv_sec < b.tv_sec \/ (a.tv_sec = b.tv_sec /\ a.tv_nsec < b.tv_nsec)
    THEN a ELSE b

timespec_from_millis(millis) ==
  normalize([tv_sec |-> 0, tv_nsec |-> millis * NsecPerMilli])

\* The length of a timespec in milliseconds (every timespec of the model is
\* a whole number of milliseconds).
ToMillis(ts) == ts.tv_sec * MillisPerSec + ts.tv_nsec \div NsecPerMilli

ZeroTime == [tv_sec |-> 0, tv_nsec |-> 0]

(* ------------------------------- state --------------------------------- *)
VARIABLES
  port_, fd_, is_open_, xonxoff_, rtscts_,
  baudrate_, parity_, bytesize_, stopbits_, flowcontrol_,
  timeout_,
  inter_byte_timeout_, read_timeout_constant_, read_timeout_multiplier_,
  write_timeout_constant_, write_timeout_multiplier_,
  os_fds,      \* descriptors of the process that refer to the port
  tty,         \* the device's line settings: its termios attributes
  inq,         \* bytes queued in the tty input queue
  clock,       \* the clock timespec_now() samples, in ms
  call,        \* the locals of the read / write call in progress or last returned
  lastOp,      \* the last step taken
  result,      \* what the last operation gave its caller
  oscalls,     \* the OS calls the last step issued on descriptors, in order
  closes,      \* how many close() calls in a row have just returned (up to 2)
  read_mutex,  \* the thread that holds read_mutex, or NoOwner
  write_mutex, \* the thread that holds write_mutex, or NoOwner
  thread       \* what each thread sharing the handle is doing

profile  == <<baudrate_, parity_, bytesize_, stopbits_, flowcontrol_>>
flags    == <<xonxoff_, rtscts_>>
timeouts == <<timeout_, inter_byte_timeout_, read_timeout_constant_,
              read_timeout_multiplier_, write_timeout_constant_,
              write_timeout_multiplier_>>
handle   == <<port_, fd_, is_open_, profile, flags, timeouts>>
os       == <<os_fds, tty, inq, clock>>
locks    == <<read_mutex, write_mutex>>
vars     == <<handle, os, call, lastOp, result, oscalls, closes, locks, thread>>

(* ------------------------------ results -------------------------------- *)
Returned(v)       == [kind |-> "ok", what |-> "", value |-> v]
Thrown(kind, what) == [kind |-> kind, what |-> what, value |-> 0]
Pending           == [kind |-> "pending", what |-> "", value |-> 0]

NoCall ==
  [op |-> "none", pc |-> "idle", size |-> 0, started |-> 0,
   timeout_endtime |-> ZeroTime, count |-> 0, before |-> 0,
   remaining |-> ZeroTime, timeout |-> ZeroTime, r |-> "none", errno |-> "",
   avail |-> 0, bytes_now |-> 0,
   buf |-> <<>>, taken |-> 0, sent |-> <<>>]

Busy == call.pc = "loop"

(* --------------------------- tty attributes ---------------------------- *)
\* What tcgetattr gives for a freshly opened line in cooked mode.
CookedAttr ==
  [raw |-> FALSE, speed |-> 9600, csize |-> 8, cstopb |-> FALSE,
   parenb |-> FALSE, parodd |-> FALSE, ixon |-> TRUE, crtscts |-> FALSE,
   vmin |-> 1, vtime |-> 0]

\* An OS call on a descriptor as the handle issues it: its name, the
\* descriptor, the attributes handed over (tcsetattr) and what it returned.
Sys(name, fd) == [call |-> name, fd |-> fd, opt |-> CookedAttr, ret |-> 0]
SysAttr(name, fd, opt, ret) == [call |-> name, fd |-> fd, opt |-> opt, ret |-> ret]

CharLen(bytesize) ==
  CASE bytesize = "eightbits" -> 8
    [] bytesize = "sevenbits" -> 7
    [] bytesize = "sixbits"   -> 6
    [] bytesize = "fivebits"  -> 5
    [] OTHER                  -> 0

ValidStopbits == {"stopbits_one", "stopbits_one_point_five", "stopbits_two"}
ValidParities == {"parity_none", "parity_even", "parity_odd"}

\* Flow-control assignments that switch a mode on and none off.
FlowFlagsSticky(flowcontrol, fl) ==
  [xonxoff |-> fl.xonxoff \/ flowcontrol = "flowcontrol_software",
   rtscts  |-> fl.rtscts \/ flowcontrol = "flowcontrol_hardware"]

\* The flow-control booleans after lines 428-440.
FlowFlags(flowcontrol, fl) ==
  LET a == IF flowcontrol = "flowcontrol_none"
             THEN [xonxoff |-> FALSE, rtscts |-> FALSE] ELSE fl
      b == IF flowcontrol = "flowcontrol_software"
             THEN [xonxoff |-> TRUE, rtscts |-> FALSE] ELSE a
  IN  IF flowcontrol = "flowcontrol_hardware"
        THEN [xonxoff |-> FALSE, rtscts |-> TRUE] ELSE b

\* The attribute structure reconfigurePort hands to tcsetattr, built from the
\* attributes read by tcgetattr and the stored profile.
Options(attr, p, fl) ==
  [raw     |-> TRUE,
   speed   |-> IF p.baudrate \in StandardBauds THEN p.baudrate ELSE attr.speed,
   csize   |-> CharLen(p.bytesize),
   cstopb  |-> p.stopbits # "stopbits_one",
   parenb  |-> p.parity # "parity_none",
   parodd  |-> p.parity = "parity_odd",
   ixon    |-> fl.xonxoff,
   crtscts |-> fl.rtscts,
   vmin    |-> 0,
   vtime   |-> 0]

\* The outcomes of the OS calls of one reconfigurePort: whether tcgetattr,
\* ioctl(TIOCSSERIAL) and tcsetattr succeed.
OsOutcomes == [getattr : BOOLEAN, setserial : BOOLEAN, setattr : BOOLEAN]
AllSucceed == [getattr |-> TRUE, setserial |-> TRUE, setattr |-> TRUE]

\* The outcomes that matter to a reconfigurePort with profile p: a call that
\* is not reached is written as succeeding.
Outcomes(p) ==
  {o \in OsOutcomes :
     /\ ~o.getattr => o.setserial /\ o.setattr
     /\ p.baudrate \in StandardBauds => o.setserial
     /\ ~o.setserial => o.setattr}

Config(kind, what, calls, fl, dev) ==
  [kind |-> kind, what |-> what, calls |-> calls,
   xonxoff |-> fl.xonxoff, rtscts |-> fl.rtscts, tty |-> dev]

\* reconfigurePort on descriptor fd with profile p, flags fl and device dev,
\* under the OS outcomes o.
reconfigurePort(fd, p, fl, dev, o) ==
  IF fd = -1
    THEN Config("IOException", "Invalid file descriptor", <<>>, fl, dev)
  ELSE IF ~o.getattr
    THEN Config("IOException", "::tcgetattr", <<Sys("tcgetattr", fd)>>, fl, dev)
  ELSE
    LET custom_baud == p.baudrate \notin StandardBauds
        c1 == <<Sys("tcgetattr", fd)>> \o
              (IF custom_baud
                 THEN <<Sys("TIOCGSERIAL", fd), Sys("TIOCSSERIAL", fd)>>
                 ELSE <<>>)
        fl1 == FlowFlags(p.flowcontrol, fl)
        options == Options(dev, p, fl1)
    IN  IF custom_baud /\ ~o.setserial
          THEN Config("IOException", "errno", c1, fl, dev)
        ELSE IF CharLen(p.bytesize) = 0
          THEN Config("invalid_argument", "invalid char len", c1, fl, dev)
        ELSE IF p.stopbits \notin ValidStopbits
          THEN Config("invalid_argument", "invalid stop bit", c1, fl, dev)
        ELSE IF p.parity \notin ValidParities
          THEN Config("invalid_argument", "invalid parity", c1, fl, dev)
        ELSE Config("ok", "",
                    c1 \o <<SysAttr("tcsetattr", fd, options,
                                    IF o.setattr THEN 0 ELSE -1)>>,
                    fl1, IF o.setattr THEN options ELSE dev)

Profile(baud, par, bytes, stop, flow) ==
  [baudrate |-> baud, parity |-> par, bytesize |-> bytes, stopbits |-> stop,
   flowcontrol |-> flow]

CurFlags == [xonxoff |-> xonxoff_, rtscts |-> rtscts_]

(* ------------------------------ timeouts ------------------------------- *)
AllTimeouts ==
  [inter_byte_timeout : Millis, read_timeout_constant : Millis,
   read_timeout_multiplier : Millis, write_timeout_constant : Millis,
   write_timeout_multiplier : Millis]

\* The profiles setTimeout is given: those that time reads or time writes.
Timeouts ==
  {t \in AllTimeouts :
     \/ t.write_timeout_constant = 0 /\ t.write_timeout_multiplier = 0
     \/ /\ t.inter_byte_timeout = 0 /\ t.read_timeout_constant = 0
        /\ t.read_timeout_multiplier = 0}

ZeroTimeout ==
  [inter_byte_timeout |-> 0, read_timeout_constant |-> 0,
   read_timeout_multiplier |-> 0, write_timeout_constant |-> 0,
   write_timeout_multiplier |-> 0]

\* The timespec the read multiplier is cached from (line 707).
ReadMultiplierMillis(t) == t.read_timeout_constant

\* The five cached timespecs of setTimeout (lines 705-709).
CachedTimeouts(t) ==
  [inter_byte_timeout_       |-> timespec_from_millis(t.inter_byte_timeout),
   read_timeout_constant_    |-> timespec_from_millis(t.read_timeout_constant),
   read_timeout_multiplier_  |-> timespec_from_millis(ReadMultiplierMillis(t)),
   write_timeout_constant_   |-> timespec_from_millis(t.write_timeout_constant),
   write_timeout_multiplier_ |-> timespec_from_millis(t.write_timeout_multiplier)]

StoreTimeout(t) ==
  /\ timeout_' = t
  /\ inter_byte_timeout_'       = CachedTimeouts(t).inter_byte_timeout_
  /\ read_timeout_constant_'    = CachedTimeouts(t).read_timeout_constant_
  /\ read_timeout_multiplier_'  = CachedTimeouts(t).read_timeout_multiplier_
  /\ write_timeout_constant_'   = CachedTimeouts(t).write_timeout_constant_
  /\ write_timeout_multiplier_' = CachedTimeouts(t).write_timeout_multiplier_

(* --------------------------- descriptor table -------------------------- *)
FdRange == 3 .. (2 + MaxFds)

\* ::open gives the lowest descriptor not in use.
NewFd(used) == CHOOSE fd \in FdRange \ used : \A g \in FdRange \ used : fd <= g

OpenErrnos == {"ok", "EMFILE", "ENFILE", "ENOENT"}

Interrupted(n) == [i \in 1..n |-> Sys("open:EINTR", -1)]

\* An open() that reports every failure of ::open alike.
TooManyHandlesNever(e) == FALSE

\* The errno values open() reports as too many file handles (lines 204-206).
TooManyHandles(e) == e \in {"ENFILE", "EMFILE"}

(* ------------------------------- mutexes ------------------------------- *)
\* The threads that share the handle, and the owner of a mutex nobody holds
\* (pthread_mutex_init, lines 171-172).
Threads == 1..MaxThreads
NoOwner == 0

(* ------------------------------- Init ---------------------------------- *)
\* The state after the constructor (lines 163-177) has returned: the zero
\* timeout is cached, and a handle built with a port name has been opened.  A
\* constructor whose open() throws builds no handle.
Init ==
  /\ port_ \in Ports
  /\ baudrate_ \in Baudrates /\ bytesize_ \in Bytesizes /\ parity_ \in Parities
  /\ stopbits_ \in Stopbitses /\ flowcontrol_ \in Flowcontrols
  /\ timeout_ = ZeroTimeout
  /\ inter_byte_timeout_       = CachedTimeouts(ZeroTimeout).inter_byte_timeout_
  /\ read_timeout_constant_    = CachedTimeouts(ZeroTimeout).read_timeout_constant_
  /\ read_timeout_multiplier_  = CachedTimeouts(ZeroTimeout).read_timeout_multiplier_
  /\ write_timeout_constant_   = CachedTimeouts(ZeroTimeout).write_timeout_constant_
  /\ write_timeout_multiplier_ = CachedTimeouts(ZeroTimeout).write_timeout_multiplier_
  /\ clock = 0 /\ inq = 0
  /\ call = NoCall /\ lastOp = "ctor" /\ result = Returned(0) /\ closes = 0
  /\ read_mutex = NoOwner /\ write_mutex = NoOwner
  /\ thread = [t \in Threads |-> "idle"]
  /\ \E o \in OsOutcomes :
       LET dev0 == CookedAttr
           nofl == [xonxoff |-> FALSE, rtscts |-> FALSE]
           fd0 == NewFd({})
           c == reconfigurePort(fd0,
                  Profile(baudrate_, parity_, bytesize_, stopbits_, flowcontrol_),
                  nofl, dev0, o)
       IN  IF port_ = ""
             THEN /\ o = AllSucceed
                  /\ fd_ = -1 /\ is_open_ = FALSE /\ os_fds = {}
                  /\ xonxoff_ = FALSE /\ rtscts_ = FALSE
                  /\ tty = dev0 /\ oscalls = <<>>
             ELSE /\ c.kind = "ok"
                  /\ fd_ = fd0 /\ is_open_ = TRUE /\ os_fds = {fd0}
                  /\ xonxoff_ = c.xonxoff /\ rtscts_ = c.rtscts
                  /\ tty = c.tty
                  /\ oscalls = <<Sys("open", fd0)>> \o c.calls

(* ------------------------------ lifecycle ------------------------------ *)
setPort ==
  /\ ~Busy
  /\ UNCHANGED <<locks, thread>>
  /\ \E port \in Ports : port_' = port
  /\ lastOp' = "setPort" /\ result' = Returned(0) /\ oscalls' = <<>>
  /\ call' = NoCall /\ closes' = 0
  /\ UNCHANGED <<fd_, is_open_, profile, flags, timeouts, os>>

\* An open() without the already-open test.
AlreadyOpenUnchecked(is_open) == FALSE

\* open() gives up before touching the OS (lines 189-194).
EmptyPort(port) == port = ""
AlreadyOpen(is_open) == is_open = TRUE

open ==
  /\ ~Busy
  /\ UNCHANGED <<locks, thread>>
  /\ lastOp' = "open" /\ call' = NoCall /\ closes' = 0
  /\ UNCHANGED <<port_, profile, timeouts, clock>>
  /\ IF EmptyPort(port_)
       THEN /\ result' = Thrown("invalid_argument", "Empty port is invalid.")
            /\ oscalls' = <<>>
            /\ UNCHANGED <<fd_, is_open_, flags, os_fds, tty, inq>>
     ELSE IF AlreadyOpen(is_open_)
       THEN /\ result' = Thrown("SerialException", "Serial port already open.")
            /\ oscalls' = <<>>
            /\ UNCHANGED <<fd_, is_open_, flags, os_fds, tty, inq>>
     ELSE \E n \in 0..MaxEintr, e \in OpenErrnos,
             o \in Outcomes(Profile(baudrate_, parity_, bytesize_, stopbits_,
                                    flowcontrol_)) :
            IF e # "ok"
              THEN \* ::open failed: fd_ holds -1 (line 196)
                   /\ o = AllSucceed
                   /\ fd_' = -1
                   /\ result' = IF TooManyHandles(e)
                                  THEN Thrown("IOException", "Too many file handles open.")
                                  ELSE Thrown("IOException", e)
                   /\ oscalls' = Interrupted(n) \o <<Sys("open:" \o e, -1)>>
                   /\ UNCHANGED <<is_open_, flags, os_fds, tty, inq>>
              ELSE /\ Cardinality(os_fds) < MaxFds
                   /\ LET fd == NewFd(os_fds)
                          c == reconfigurePort(fd,
                                 Profile(baudrate_, parity_, bytesize_, stopbits_,
                                         flowcontrol_),
                                 CurFlags, tty, o)
                      IN  /\ fd_' = fd
                          /\ os_fds' = os_fds \cup {fd}
                          /\ xonxoff_' = c.xonxoff /\ rtscts_' = c.rtscts
                          /\ tty' = c.tty
                          /\ oscalls' = Interrupted(n) \o <<Sys("open", fd)>> \o c.calls
                          /\ IF c.kind = "ok"
                               THEN is_open_' = TRUE /\ result' = Returned(0)
                               ELSE is_open_' = is_open_
                                    /\ result' = Thrown(c.kind, c.what)
                          /\ UNCHANGED inq

\* A close() that calls ::close and forgets to reset its fields.
CloseKeepsState(is_open, fd) ==
  [released |-> is_open = TRUE /\ fd # -1, fd |-> fd, is_open |-> is_open]

\* What close() leaves: whether it called ::close, and the fields after it
\* (lines 482-488).
CloseEffect(is_open, fd) ==
  [released |-> is_open = TRUE /\ fd # -1,
   fd       |-> IF is_open = TRUE /\ fd # -1 THEN -1 ELSE fd,
   is_open  |-> FALSE]

close ==
  /\ ~Busy
  /\ UNCHANGED <<locks, thread>>
  /\ LET c == CloseEffect(is_open_, fd_)
     IN  /\ fd_' = c.fd /\ is_open_' = c.is_open
         /\ os_fds' = IF c.released THEN os_fds \ {fd_} ELSE os_fds
         /\ oscalls' = IF c.released THEN <<Sys("close", fd_)>> ELSE <<>>
  /\ inq' = IF os_fds' = {} THEN 0 ELSE inq
  /\ lastOp' = "close" /\ result' = Returned(0) /\ call' = NoCall
  /\ closes' = IF closes < 2 THEN closes + 1 ELSE 2
  /\ UNCHANGED <<port_, profile, flags, timeouts, tty, clock>>

isOpen == is_open_

setTimeout ==
  /\ ~Busy
  /\ UNCHANGED <<locks, thread>>
  /\ \E t \in Timeouts : StoreTimeout(t)
  /\ lastOp' = "setTimeout" /\ result' = Returned(0) /\ oscalls' = <<>>
  /\ call' = NoCall /\ closes' = 0
  /\ UNCHANGED <<port_, fd_, is_open_, profile, flags, os>>

(* ------------------------------- setters ------------------------------- *)
\* A setter that only stores the value.
SetterStoresOnly(is_open) == FALSE

\* A profile setter reapplies the configuration when the handle is open
\* (lines 722-723, 736-737, 750-751, 764-765, 778-779).
SetterReconfigures(is_open) == is_open

\* The common body of the five profile setters: store the value, then
\* reconfigure if open.
Setter(name, p) ==
  /\ ~Busy
  /\ UNCHANGED <<locks, thread>>
  /\ lastOp' = name /\ call' = NoCall /\ closes' = 0
  /\ baudrate_' = p.baudrate /\ parity_' = p.parity /\ bytesize_' = p.bytesize
  /\ stopbits_' = p.stopbits /\ flowcontrol_' = p.flowcontrol
  /\ IF SetterReconfigures(is_open_)
       THEN \E o \in Outcomes(p) :
              LET c == reconfigurePort(fd_, p, CurFlags, tty, o)
              IN  /\ xonxoff_' = c.xonxoff /\ rtscts_' = c.rtscts
                  /\ tty' = c.tty
                  /\ oscalls' = c.calls
                  /\ result' = IF c.kind = "ok" THEN Returned(0)
                                                ELSE Thrown(c.kind, c.what)
       ELSE /\ result' = Returned(0) /\ oscalls' = <<>>
            /\ UNCHANGED <<flags, tty>>
  /\ UNCHANGED <<port_, fd_, is_open_, timeouts, os_fds, inq, clock>>

setBaudrate ==
  \E baudrate \in Baudrates :
    Setter("setBaudrate",
           Profile(baudrate, parity_, bytesize_, stopbits_, flowcontrol_))

setBytesize ==
  \E bytesize \in Bytesizes :
    Setter("setBytesize",
           Profile(baudrate_, parity_, bytesize, stopbits_, flowcontrol_))

setParity ==
  \E parity \in Parities :
    Setter("setParity",
           Profile(baudrate_, parity, bytesize_, stopbits_, flowcontrol_))

setStopbits ==
  \E stopbits \in Stopbitses :
    Setter("setStopbits",
           Profile(baudrate_, parity_, bytesize_, stopbits, flowcontrol_))

setFlowcontrol ==
  \E flowcontrol \in Flowcontrols :
    Setter("setFlowcontrol",
           Profile(baudrate_, parity_, bytesize_, stopbits_, flowcontrol))

(* ------------------------- control-line operations --------------------- *)
\* An operation without the open test.
NotOpenUnchecked(is_open) == FALSE

\* The test every operation that needs an open handle starts with
\* (lines 516, 611, 791, 800, 809, 818, 827, 840, 853, 890, 900, 910, 920).
NotOpen(is_open) == is_open = FALSE

\* An operation that checks the handle is open and then issues the OS calls
\* `calls`, returning one of `values`; `q` is the input queue it leaves.
LineOp(name, calls, values, q) ==
  /\ ~Busy
  /\ UNCHANGED <<locks, thread>>
  /\ lastOp' = name /\ call' = NoCall /\ closes' = 0
  /\ IF NotOpen(is_open_)
       THEN /\ result' = Thrown("PortNotOpenedException", name)
            /\ oscalls' = <<>>
            /\ inq' = inq
       ELSE /\ \E v \in values : result' = Returned(v)
            /\ oscalls' = calls
            /\ inq' = q
  /\ UNCHANGED <<handle, os_fds, tty, clock>>

flush       == LineOp("flush", <<Sys("tcdrain", fd_)>>, {0}, inq)
flushInput  == LineOp("flushInput", <<Sys("tcflush:TCIFLUSH", fd_)>>, {0}, 0)
flushOutput == LineOp("flushOutput", <<Sys("tcflush:TCOFLUSH", fd_)>>, {0}, inq)
sendBreak   == LineOp("sendBreak", <<Sys("tcsendbreak", fd_)>>, {0}, inq)

setBreak ==
  \E level \in BOOLEAN :
    LineOp("setBreak",
           <<Sys(IF level THEN "ioctl:TIOCSBRK" ELSE "ioctl:TIOCCBRK", fd_)>>,
           {0}, inq)

setRTS ==
  \E level \in BOOLEAN :
    LineOp("setRTS",
           <<Sys(IF level THEN "ioctl:TIOCMBIS:RTS" ELSE "ioctl:TIOCMBIC:RTS", fd_)>>,
           {0}, inq)

setDTR ==
  \E level \in BOOLEAN :
    LineOp("setDTR",
           <<Sys(IF level THEN "ioctl:TIOCMBIS:DTR" ELSE "ioctl:TIOCMBIC:DTR", fd_)>>,
           {0}, inq)

\* The modem-status getters return the bit of the line, 0 or 1.
getCTS == LineOp("getCTS", <<Sys("ioctl:TIOCMGET", fd_)>>, {0, 1}, inq)
getDSR == LineOp("getDSR", <<Sys("ioctl:TIOCMGET", fd_)>>, {0, 1}, inq)
getRI  == LineOp("getRI",  <<Sys("ioctl:TIOCMGET", fd_)>>, {0, 1}, inq)
getCD  == LineOp("getCD",  <<Sys("ioctl:TIOCMGET", fd_)>>, {0, 1}, inq)

(* ------------------------------ transfers ------------------------------ *)
\* The deadline of a call: now + constant + multiplier * size
\* (lines 522-523, 617-618).
Endtime(clk, constant, multiplier, size) ==
  timespec_add(timespec_add(timespec_now(clk), constant),
               timespec_mul(multiplier, size))

\* A loop that asks for the whole size again on every iteration.
RequestWhole(size, done) == size

\* The count the loop asks ::read / ::write to transfer (lines 573, 651).
Request(size, done) == size - done

\* read(2) moves what is queued, at most the count asked for.
SysRead(n, q) == IF q < n THEN q ELSE n

\* The `while (bytes_read < size)` test (lines 539, 621): enter or re-enter
\* the loop, or return the count.
LoopTest(c) ==
  IF c.count < c.size
    THEN call' = [c EXCEPT !.pc = "loop"] /\ result' = Pending
    ELSE call' = [c EXCEPT !.pc = "done"] /\ result' = Returned(c.count)

\* A loop that starts every transfer at the start of the buffer.
OffsetStart(done) == 0

\* Where in the caller's buffer a loop transfer starts: buf + bytes_read,
\* data + bytes_written (lines 573, 651).
Offset(done) == done

\* The caller's buffer after a ::read that stores n bytes from position off
\* on.  A byte is named by its place among the bytes the call has taken from
\* the input queue, which hands them out in queue order: the n bytes stored
\* are number first + 1 to first + n.  0 is a position never written.
Stored(buf, off, first, n) ==
  [i \in 1..Len(buf) |->
     IF off < i /\ i <= off + n THEN first + (i - off) ELSE buf[i]]

\* The locals of a call, with the buffer and the device's side, after a
\* transfer of n bytes at Offset(count): ::read stores the next n bytes of the
\* queue there, ::write hands the device the n bytes of data found there.
Moved(c, n) ==
  IF c.op = "read"
    THEN [c EXCEPT !.buf = Stored(c.buf, Offset(c.count), c.taken, n),
                   !.taken = c.taken + n]
    ELSE [c EXCEPT !.sent = c.sent \o [i \in 1..n |-> Offset(c.count) + i]]

\* A loop that treats an expired wait as a failure.
TimedOutThrows(c) == Thrown("IOException", "ETIMEDOUT")

\* What the call gives its caller when pselect returns 0: the loop is left
\* and the running count returned (lines 563-565 and 605, 642-644 and 683).
TimedOut(c) == Returned(c.count)

\* A loop for which an interrupted wait is a failure like any other.
RetryNever(errno) == FALSE

\* The errors pselect fails with: a signal, or anything else.
WaitErrnos == {"EINTR", "EBADF"}

\* The test on a failed pselect: an interrupted wait is tried again
\* (lines 556-558, 635-637).
Retry(errno) == errno = "EINTR"

\* The tail of a loop iteration whose pselect failed with errno (lines 554-561,
\* 633-640).
WaitFailed(c, errno) ==
  IF Retry(errno)
    THEN call' = [c EXCEPT !.r = "error", !.errno = errno] /\ result' = Pending
    ELSE call' = [c EXCEPT !.r = "error", !.errno = errno, !.pc = "done"]
         /\ result' = Thrown("IOException", errno)

\* A loop that takes an empty transfer for a short one.
DisconnectedNever(n) == FALSE

\* The test after ::read / ::write: the transfer moved nothing or failed
\* (lines 532, 577, 655).
Disconnected(n) == n < 1

Fail(c, kind, what) ==
  call' = [c EXCEPT !.pc = "done"] /\ result' = Thrown(kind, what)

\* The tail of a loop iteration after a transfer of n bytes (lines 576-598,
\* 654-676).
AfterTransfer(c0, n, what) ==
  LET c   == [c0 EXCEPT !.bytes_now = n]
      cnt == c.count + n
  IN  IF Disconnected(n)
        THEN Fail(c, "SerialException", "device disconnected")
      ELSE IF cnt = c.size
        THEN call' = [Moved(c, n) EXCEPT !.count = cnt, !.pc = "done"]
             /\ result' = Returned(cnt)
      ELSE IF cnt < c.size
        THEN call' = [Moved(c, n) EXCEPT !.count = cnt] /\ result' = Pending
      ELSE Fail([Moved(c, n) EXCEPT !.count = cnt], "SerialException", what)

\* read(): lines 513-537 and the first loop test.
read ==
  /\ ~Busy
  /\ UNCHANGED <<locks, thread>>
  /\ lastOp' = "read" /\ closes' = 0
  /\ UNCHANGED <<handle, os_fds, tty, clock>>
  /\ IF NotOpen(is_open_)
       THEN /\ result' = Thrown("PortNotOpenedException", "Serial::read")
            /\ oscalls' = <<>> /\ call' = NoCall /\ inq' = inq
       ELSE /\ clock <= MaxClock
            /\ \E size \in 0..MaxSize, avail_ok \in BOOLEAN, read_ok \in BOOLEAN :
                 LET c == [NoCall EXCEPT
                             !.op = "read", !.size = size, !.started = clock,
                             !.buf = [i \in 1..size |-> 0],
                             !.timeout_endtime =
                                Endtime(clock, read_timeout_constant_,
                                        read_timeout_multiplier_, size)]
                     bytes_read_now == IF read_ok THEN SysRead(size, inq) ELSE -1
                     d == [c EXCEPT !.avail = inq, !.bytes_now = bytes_read_now]
                 IN  IF ~avail_ok
                       THEN /\ Fail(c, "IOException", "errno")
                            /\ oscalls' = <<Sys("ioctl:TIOCINQ", fd_)>>
                            /\ inq' = inq
                     ELSE IF inq > 0
                       THEN /\ oscalls' = <<Sys("ioctl:TIOCINQ", fd_), Sys("read", fd_)>>
                            /\ IF Disconnected(bytes_read_now)
                                 THEN Fail(d, "SerialException", "device disconnected")
                                      /\ inq' = inq
                                 ELSE LoopTest([d EXCEPT
                                                 !.count = bytes_read_now,
                                                 !.buf = Stored(d.buf, 0, 0,
                                                                bytes_read_now),
                                                 !.taken = bytes_read_now])
                                      /\ inq' = inq - bytes_read_now
                     ELSE /\ read_ok
                          /\ oscalls' = <<Sys("ioctl:TIOCINQ", fd_)>>
                          /\ LoopTest(c)
                          /\ inq' = inq

\* A read loop that waits the inter-byte timeout whatever time remains.
ReadWaitInterByte(timeout_remaining, inter_byte) == inter_byte

\* A read loop that waits for the deadline whatever the inter-byte timeout.
ReadWaitRemaining(timeout_remaining, inter_byte) == timeout_remaining

\* The timeout handed to pselect by the read loop (line 544).
ReadWait(timeout_remaining, inter_byte) == min(timeout_remaining, inter_byte)

\* One iteration of the read loop (lines 539-604).
read_loop ==
  /\ Busy /\ call.op = "read"
  /\ UNCHANGED <<locks, thread>>
  /\ lastOp' = "read_loop" /\ closes' = closes
  /\ oscalls' = <<Sys("pselect", fd_)>>
  /\ UNCHANGED <<handle, os_fds, tty>>
  /\ LET timeout_remaining ==
           timespec_sub(call.timeout_endtime, timespec_now(clock))
         timeout == ReadWait(timeout_remaining, inter_byte_timeout_)
         T  == ToMillis(timeout)
         c  == [call EXCEPT !.remaining = timeout_remaining,
                            !.timeout = timeout, !.before = call.count,
                            !.avail = 0, !.bytes_now = 0]
     IN  IF timeout.tv_sec < 0
           THEN \* pselect rejects a negative timeout
                /\ WaitFailed(c, "EINVAL")
                /\ UNCHANGED <<inq, clock>>
           ELSE \/ \* nothing became ready within the timeout
                   /\ inq = 0
                   /\ clock' = clock + T /\ inq' = inq
                   /\ call' = [c EXCEPT !.r = "timeout", !.pc = "done"]
                   /\ result' = TimedOut(c)
                \/ \* the wait failed after d ms: interrupted by a signal, or
                   \* at once for another reason
                   \E errno \in WaitErrnos, d \in {0} \cup Delays :
                     /\ d <= T /\ (errno # "EINTR" => d = 0)
                     /\ clock' = clock + d /\ inq' = inq
                     /\ WaitFailed(c, errno)
                \/ \* the descriptor became readable after d ms, k bytes
                   \* having arrived (none, and nothing queued: a hang-up)
                   \E d \in {0} \cup Delays, k \in 0..MaxInq, read_ok \in BOOLEAN :
                     /\ d = 0 \/ d < T
                     /\ IF inq > 0 THEN d = 0 /\ k = 0
                                   ELSE (k > 0 /\ d > 0) \/ (k = 0 /\ ~read_ok)
                     /\ inq + k <= MaxInq
                     /\ LET n == IF read_ok
                                   THEN SysRead(Request(c.size, c.count), inq + k)
                                   ELSE -1
                        IN  /\ clock' = clock + d
                            /\ inq' = IF n < 1 THEN inq + k ELSE inq + k - n
                            /\ AfterTransfer([c EXCEPT !.r = "ready"], n,
                                             "read over read")

\* write(): lines 609-620 and the first loop test.
write ==
  /\ ~Busy
  /\ UNCHANGED <<locks, thread>>
  /\ lastOp' = "write" /\ closes' = 0 /\ oscalls' = <<>>
  /\ UNCHANGED <<handle, os>>
  /\ IF NotOpen(is_open_)
       THEN /\ result' = Thrown("PortNotOpenedException", "Serial::write")
            /\ call' = NoCall
       ELSE /\ clock <= MaxClock
            /\ \E length \in 0..MaxSize :
                 LoopTest([NoCall EXCEPT
                             !.op = "write", !.size = length, !.started = clock,
                             !.timeout_endtime =
                                Endtime(clock, write_timeout_constant_,
                                        write_timeout_multiplier_, length)])

\* One iteration of the write loop (lines 621-682).
write_loop ==
  /\ Busy /\ call.op = "write"
  /\ UNCHANGED <<locks, thread>>
  /\ lastOp' = "write_loop" /\ closes' = closes
  /\ oscalls' = <<Sys("pselect", fd_)>>
  /\ UNCHANGED <<handle, os_fds, tty, inq>>
  /\ LET timeout_remaining ==
           timespec_sub(call.timeout_endtime, timespec_now(clock))
         T  == ToMillis(timeout_remaining)
         c  == [call EXCEPT !.remaining = timeout_remaining,
                            !.timeout = timeout_remaining,
                            !.before = call.count]
     IN  IF timeout_remaining.tv_sec < 0
           THEN /\ WaitFailed(c, "EINVAL")
                /\ UNCHANGED clock
           ELSE \/ /\ clock' = clock + T
                   /\ call' = [c EXCEPT !.r = "timeout", !.pc = "done"]
                   /\ result' = TimedOut(c)
                \/ \E errno \in WaitErrnos, d \in {0} \cup Delays :
                     /\ d <= T /\ (errno # "EINTR" => d = 0)
                     /\ clock' = clock + d
                     /\ WaitFailed(c, errno)
                \/ \* the descriptor became writable after d ms and ::write
                   \* took k bytes (none, or -1 for a failure: the device is gone)
                   \E d \in {0} \cup Delays, k \in -1..Request(c.size, c.count) :
                     /\ d = 0 \/ d < T
                     /\ clock' = clock + d
                     /\ AfterTransfer([c EXCEPT !.r = "ready"], k,
                                      "write over wrote")

(* -------------------------------- locks -------------------------------- *)
\* A pthread_mutex_lock that never waits.
MutexAlwaysFree(mutex) == TRUE

\* pthread_mutex_lock returns once nobody holds the mutex (lines 930, 948).
MutexFree(mutex) == mutex = NoOwner

\* What a thread does with the handle: nothing, waiting inside readLock /
\* writeLock, or between the lock and the unlock of its bracket.
ThreadStates == {"idle", "readLock", "reading", "writeLock", "writing"}

LockStep(t, from, to, name, res) ==
  /\ thread[t] = from
  /\ thread' = [thread EXCEPT ![t] = to]
  /\ lastOp' = name /\ result' = res /\ oscalls' = <<>>
  /\ UNCHANGED <<handle, os, call, closes>>

\* Thread t calls readLock() and enters pthread_mutex_lock (line 930).
readLock(t) ==
  /\ LockStep(t, "idle", "readLock", "readLock", Pending)
  /\ UNCHANGED locks

\* pthread_mutex_lock gives t the read mutex; readLock returns (lines 930-934).
readLockAcquired(t) ==
  /\ MutexFree(read_mutex)
  /\ LockStep(t, "readLock", "reading", "readLock", Returned(0))
  /\ read_mutex' = t /\ UNCHANGED write_mutex

\* readUnlock(): lines 936-943.
readUnlock(t) ==
  /\ LockStep(t, "reading", "idle", "readUnlock", Returned(0))
  /\ read_mutex' = NoOwner /\ UNCHANGED write_mutex

\* Thread t calls writeLock() and enters pthread_mutex_lock (line 948).
writeLock(t) ==
  /\ LockStep(t, "idle", "writeLock", "writeLock", Pending)
  /\ UNCHANGED locks

\* pthread_mutex_lock gives t the write mutex; writeLock returns (lines 948-952).
writeLockAcquired(t) ==
  /\ MutexFree(write_mutex)
  /\ LockStep(t, "writeLock", "writing", "writeLock", Returned(0))
  /\ write_mutex' = t /\ UNCHANGED read_mutex

\* writeUnlock(): lines 954-961.
writeUnlock(t) ==
  /\ LockStep(t, "writing", "idle", "writeUnlock", Returned(0))
  /\ write_mutex' = NoOwner /\ UNCHANGED read_mutex

(* ----------------------------- environment ----------------------------- *)
\* The locals of a call that has returned are gone once the environment moves.
Locals == IF Busy THEN call ELSE NoCall

\* Time passes: between two calls, or between two clock samples of a call.
Tick ==
  /\ \E d \in Delays :
       /\ IF Busy THEN clock <= ToMillis(call.timeout_endtime)
                  ELSE clock + d <= MaxClock
       /\ clock' = clock + d
  /\ call' = Locals
  /\ UNCHANGED <<handle, os_fds, tty, inq, lastOp, result, oscalls, closes>>
  /\ UNCHANGED <<locks, thread>>

\* The device receives a byte.
Arrive ==
  /\ os_fds # {} /\ inq < MaxInq
  /\ inq' = inq + 1
  /\ call' = Locals
  /\ UNCHANGED <<handle, os_fds, tty, clock, lastOp, result, oscalls, closes>>
  /\ UNCHANGED <<locks, thread>>

(* --------------------------- specifications ---------------------------- *)
\* The handle's lifecycle and the operations that need an open handle, for
\* every port profile a handle is constructed with, under the zero timeout the
\* constructor installs.
Next ==
  \/ setPort \/ open \/ close
  \/ flush \/ flushInput \/ flushOutput \/ sendBreak \/ setBreak
  \/ setRTS \/ setDTR \/ getCTS \/ getDSR \/ getRI \/ getCD
  \/ read \/ read_loop \/ write \/ write_loop

Spec == Init /\ [][Next]_vars

\* Port configuration: the profile setters on a handle that is opened and closed.
NextCfg ==
  \/ open \/ close
  \/ setBaudrate \/ setBytesize \/ setParity \/ setStopbits \/ setFlowcontrol

SpecCfg == Init /\ [][NextCfg]_vars

\* The transfers of a handle built with one valid port profile, under every
\* timeout profile, with time passing and bytes arriving.
InitIO ==
  /\ Init
  /\ baudrate_ = 9600 /\ bytesize_ = "eightbits" /\ parity_ = "parity_none"
  /\ stopbits_ = "stopbits_one" /\ flowcontrol_ = "flowcontrol_none"
  /\ port_ # "" => tty.raw

NextIO ==
  \/ open \/ close \/ setTimeout
  \/ read \/ read_loop \/ write \/ write_loop
  \/ Tick \/ Arrive

SpecIO == InitIO /\ [][NextIO]_vars

\* The transfers of a handle that stays as it was constructed, with a call in
\* progress running on: its wait returns and the iteration is carried out.
NextCall ==
  \/ setTimeout
  \/ read \/ read_loop \/ write \/ write_loop
  \/ Tick \/ Arrive

SpecIOFair ==
  /\ InitIO /\ [][NextCall]_vars
  /\ WF_vars(read_loop) /\ WF_vars(write_loop)

\* The lock operations, called by threads that bracket their reads with
\* readLock / readUnlock and their writes with writeLock / writeUnlock.  A
\* thread that holds a mutex goes on to unlock it, and a thread waiting for a
\* mutex that stays free gets it.
NextLock ==
  \E t \in Threads :
    \/ readLock(t) \/ readLockAcquired(t) \/ readUnlock(t)
    \/ writeLock(t) \/ writeLockAcquired(t) \/ writeUnlock(t)

SpecLock ==
  /\ InitIO /\ [][NextLock]_vars
  /\ \A t \in Threads :
       /\ WF_vars(readLockAcquired(t)) /\ WF_vars(readUnlock(t))
       /\ WF_vars(writeLockAcquired(t)) /\ WF_vars(writeUnlock(t))

(* ------------------------------- claims -------------------------------- *)
Negative(ts) == ts.tv_sec < 0

\* C1: when the readiness wait of a read or write reports that nothing became
\* ready, the call has returned normally, with the count transferred before
\* the wait, which is below the requested size.
C1_TimeoutReturnsCount ==
  call.r = "timeout" =>
    /\ call.pc = "done"
    /\ result = Returned(call.before)
    /\ call.count = call.before
    /\ call.before < call.size

\* C1 witness: a read of N > 0 bytes waited a positive time on a silent
\* source and returned 0.
C1_SilentReadReturnsZero ==
  /\ call.op = "read" /\ call.r = "timeout" /\ call.size > 0
  /\ ToMillis(call.timeout) > 0
  /\ clock = call.started + ToMillis(call.timeout)
  /\ result = Returned(0)

\* C2: the deadline of a read call is the clock at its start plus the read
\* constant plus the configured read multiplier times the requested size.
C2_ReadDeadline ==
  (call.op = "read" /\ Busy) =>
    ToMillis(call.timeout_endtime) =
      call.started + timeout_.read_timeout_constant
                   + timeout_.read_timeout_multiplier * call.size

\* C3: with inter_byte_timeout configured as 0, every readiness wait of a read
\* is bounded by the time remaining to the deadline and by nothing else.
C3_ZeroInterByteIsNoCutoff ==
  (call.op = "read" /\ call.r # "none" /\ timeout_.inter_byte_timeout = 0) =>
    call.timeout = call.remaining

\* C4 (the case of a deadline already passed): when the remaining time
\* computed at the top of the wait loop is negative, the call returns the count
\* transferred so far and raises no error.
C4_ExpiredIsTimeout ==
  (call.r # "none" /\ Negative(call.remaining)) =>
    /\ call.pc = "done"
    /\ result = Returned(call.before)

\* C5: the running count of a read or write never exceeds the requested size,
\* no returned count does, and the over-read / over-wrote errors are never
\* raised.
C5_CountWithinSize ==
  /\ call.count <= call.size
  /\ (call.pc = "done" /\ result.kind = "ok") => result.value <= call.size
  /\ result.what \notin {"read over read", "write over wrote"}

\* C5 witness: a read that was completed by a second transfer, after a first
\* partial one.
C5_ReadCompletedInTwoTransfers ==
  /\ call.op = "read" /\ call.pc = "done" /\ call.r = "ready"
  /\ 0 < call.before /\ call.before < call.count /\ call.count = call.size
  /\ result = Returned(call.size)

\* C6: after close returns the handle holds no descriptor and is not open,
\* and no descriptor obtained by open is left unreleased.
C6_CloseReleasesDescriptor ==
  lastOp = "close" => (fd_ = -1 /\ ~isOpen /\ os_fds = {})

GuardedOps ==
  {"read", "write", "flush", "flushInput", "flushOutput", "sendBreak",
   "setBreak", "setRTS", "setDTR", "getCTS", "getDSR", "getRI", "getCD"}

SetterOps ==
  {"setBaudrate", "setBytesize", "setParity", "setStopbits", "setFlowcontrol"}

\* In Spec and SpecCfg every step is an operation of the handle and sets lastOp
\* to its own name, so lastOp' = "x" marks the steps that are calls of x.

\* C7: every close returns normally and leaves isOpen() false; a close that
\* follows a close issues no OS call and changes neither the handle nor the
\* descriptor table.
C7_CloseIdempotent ==
  [][lastOp' = "close" =>
       /\ result'.kind = "ok"
       /\ ~isOpen'
       /\ closes >= 1 =>
            (oscalls' = <<>> /\ UNCHANGED <<handle, os_fds, tty, inq>>)]_vars

\* C7 witness: two close calls in a row have returned.
C7_ClosedTwice ==
  closes = 2 /\ lastOp = "close" /\ result.kind = "ok" /\ ~isOpen

\* C8: read, write, the flushes, the break and modem-line operations, invoked
\* on a handle that is not open, fail with the not-open error, issue no OS
\* call and leave the handle, the device and the clock as they were.
C8_NotOpenRejected ==
  [][(lastOp' \in GuardedOps /\ ~isOpen) =>
       /\ result' = Thrown("PortNotOpenedException", result'.what)
       /\ oscalls' = <<>>
       /\ ~Busy'
       /\ UNCHANGED <<handle, os>>]_vars

\* C8 witness: an operation was refused on a handle that is not open although
\* it still holds a descriptor.
C8_RefusedWhileClosed ==
  /\ lastOp \in GuardedOps /\ ~isOpen /\ fd_ # -1
  /\ result.kind = "PortNotOpenedException"

\* C9: open on a handle with an empty port fails with invalid_argument, open
\* on an open handle fails with SerialException; neither issues an OS call nor
\* changes the handle, the descriptor table or the device.
C9_OpenRejected ==
  [][(lastOp' = "open" /\ (port_ = "" \/ isOpen)) =>
       /\ result'.kind = (IF port_ = "" THEN "invalid_argument"
                                        ELSE "SerialException")
       /\ oscalls' = <<>>
       /\ UNCHANGED <<handle, os>>]_vars

\* C9 witness: open was refused on a handle that is open on its descriptor.
C9_OpenRefusedWhileOpen ==
  /\ lastOp = "open" /\ result.kind = "SerialException"
  /\ isOpen /\ port_ # "" /\ os_fds = {fd_}

\* Whether the attributes opt handed to tcsetattr carry the profile p.
CarriesProfile(opt, p) ==
  /\ p.baudrate \in StandardBauds => opt.speed = p.baudrate
  /\ opt.csize = CharLen(p.bytesize)
  /\ opt.cstopb = (p.stopbits # "stopbits_one")
  /\ opt.parenb = (p.parity # "parity_none")
  /\ opt.parodd = (p.parity = "parity_odd")
  /\ opt.ixon = (p.flowcontrol = "flowcontrol_software")
  /\ opt.crtscts = (p.flowcontrol = "flowcontrol_hardware")

StoredProfile ==
  Profile(baudrate_, parity_, bytesize_, stopbits_, flowcontrol_)

\* C10: a profile setter never changes the descriptor or the open flag; on an
\* open handle, when it returns normally, it has issued its OS calls on the
\* current descriptor, the last of them a tcsetattr carrying the new profile
\* (a custom baud rate goes through ioctl TIOCSSERIAL), and none of them an
\* open or a close; on a closed handle it issues no OS call and returns
\* normally.
C10_SetterReconfigures ==
  [][lastOp' \in SetterOps =>
       /\ UNCHANGED <<fd_, is_open_, os_fds>>
       /\ (isOpen /\ result'.kind = "ok") =>
            /\ oscalls' # <<>>
            /\ \A i \in 1..Len(oscalls') :
                 /\ oscalls'[i].fd = fd_
                 /\ oscalls'[i].call \in {"tcgetattr", "TIOCGSERIAL",
                                         "TIOCSSERIAL", "tcsetattr"}
            /\ oscalls'[Len(oscalls')].call = "tcsetattr"
            /\ CarriesProfile(oscalls'[Len(oscalls')].opt, StoredProfile')
            /\ baudrate_' \notin StandardBauds =>
                 \E i \in 1..Len(oscalls') : oscalls'[i].call = "TIOCSSERIAL"
       /\ ~isOpen =>
            (result'.kind = "ok" /\ oscalls' = <<>> /\ UNCHANGED <<flags, tty>>)]_vars

\* C10 witness: setParity on an open handle returned and the device has the
\* new parity, on the descriptor the handle was opened with.
C10_ParityAppliedWhileOpen ==
  /\ lastOp = "setParity" /\ result.kind = "ok" /\ isOpen
  /\ parity_ = "parity_odd" /\ tty.parenb /\ tty.parodd
  /\ oscalls[Len(oscalls)] = SysAttr("tcsetattr", fd_, tty, 0)

Holders(state) == {t \in Threads : thread[t] = state}

\* C11: at most one thread is between readLock and readUnlock and at most one
\* between writeLock and writeUnlock; a thread waiting in readLock can take the
\* read mutex whenever no thread holds it, whoever holds the write mutex (and
\* likewise for writeLock); a thread enters its read (write) bracket only from
\* a state where no thread is in one; every bracket ends, and whenever a thread
\* waits for a lock some thread gets it.
C11_LocksIndependent ==
  /\ [](/\ Cardinality(Holders("reading")) <= 1
        /\ Cardinality(Holders("writing")) <= 1
        /\ \A t \in Threads :
             /\ (thread[t] = "reading") <=> (read_mutex = t)
             /\ (thread[t] = "writing") <=> (write_mutex = t)
             /\ (thread[t] = "readLock" /\ Holders("reading") = {})
                  => ENABLED readLockAcquired(t)
             /\ (thread[t] = "writeLock" /\ Holders("writing") = {})
                  => ENABLED writeLockAcquired(t))
  /\ [][\A t \in Threads :
          /\ (thread'[t] = "reading" /\ thread[t] # "reading")
               => (Holders("reading") = {} /\ read_mutex = NoOwner)
          /\ (thread'[t] = "writing" /\ thread[t] # "writing")
               => (Holders("writing") = {} /\ write_mutex = NoOwner)]_vars
  /\ \A t \in Threads :
       /\ (thread[t] = "reading") ~> (thread[t] = "idle")
       /\ (thread[t] = "writing") ~> (thread[t] = "idle")
       /\ (thread[t] = "readLock") ~> (Holders("reading") # {})
       /\ (thread[t] = "writeLock") ~> (Holders("writing") # {})

\* C11 witness: one thread is inside its read bracket and another inside its
\* write bracket at the same time, while a second reader waits in readLock.
C11_ReaderAndWriterInside ==
  \E a, b, c \in Threads :
    /\ thread[a] = "reading" /\ thread[b] = "writing" /\ thread[c] = "readLock"
    /\ read_mutex = a /\ write_mutex = b

Remaining == timespec_sub(call.timeout_endtime, timespec_now(clock))

\* C12: every iteration of a read or write loop hands pselect a timeout no
\* larger than deadline - now, the wait lasts no longer than that timeout and
\* so ends no later than the deadline; and every call in progress ends, with a
\* count or an error.
C12_BoundedWaitsAndTermination ==
  /\ [][(read_loop \/ write_loop) =>
          /\ call'.remaining = Remaining
          /\ min(call'.timeout, Remaining) = call'.timeout
          /\ clock' - clock <= ToMillis(call'.timeout) \/ clock' = clock
          /\ clock' <= ToMillis(call.timeout_endtime) \/ clock' = clock]_vars
  /\ Busy ~> (~Busy /\ result.kind # "pending")

\* C12 witness: a read took part of its bytes, then waited a positive time on
\* a source gone silent, and returned the partial count before its deadline.
C12_PartialThenSilent ==
  /\ call.op = "read" /\ call.pc = "done" /\ call.r = "timeout"
  /\ 0 < call.before /\ call.before < call.size
  /\ ToMillis(call.timeout) > 0
  /\ clock <= ToMillis(call.timeout_endtime)
  /\ result = Returned(call.before)

\* When the last wait of the call in `call` was started, in ms.
WaitStarted == ToMillis(call.timeout_endtime) - ToMillis(call.remaining)

\* C13: with a positive inter-byte timeout L, when a read of N > 1 bytes has
\* taken exactly one byte and the source then stays silent through a wait
\* started with more than L left to the deadline, the wait lasts L and the
\* read returns 1, without error, before the deadline.
C13_InterByteCutoff ==
  (/\ call.op = "read" /\ call.r = "timeout"
   /\ call.size > 1 /\ call.before = 1
   /\ timeout_.inter_byte_timeout > 0
   /\ ToMillis(call.remaining) > timeout_.inter_byte_timeout) =>
    /\ result = Returned(1)
    /\ ToMillis(call.timeout) = timeout_.inter_byte_timeout
    /\ clock = WaitStarted + timeout_.inter_byte_timeout
    /\ clock < ToMillis(call.timeout_endtime)

\* C13 witness: a read of 2 bytes got its first byte from a wait, met silence
\* for the inter-byte timeout and returned 1 with time left to its deadline.
C13_OneByteThenStall ==
  /\ call.op = "read" /\ call.r = "timeout" /\ call.size = 2 /\ call.before = 1
  /\ timeout_.inter_byte_timeout > 0
  /\ WaitStarted > call.started
  /\ clock = WaitStarted + timeout_.inter_byte_timeout
  /\ clock < ToMillis(call.timeout_endtime)
  /\ result = Returned(1)

\* C14 (with no inter-byte cutoff configured): a read that has taken a first
\* chunk waits for the next one as long as time remains to the deadline, so it
\* returns less than the requested count only once the deadline has come.
C14_SecondChunkAwaited ==
  (/\ call.op = "read" /\ call.pc = "done" /\ result.kind = "ok"
   /\ timeout_.inter_byte_timeout = 0
   /\ 0 < result.value /\ result.value < call.size) =>
    clock >= ToMillis(call.timeout_endtime)

\* Whether the call in `call` made a transfer: in the initial drain, bytes
\* having been reported queued, or after its last wait reported readiness.
Transferred == call.r = "ready" \/ (call.r = "none" /\ call.avail > 0)

\* C15: when bytes were reported queued or the descriptor reported ready, and
\* the transfer then moved zero bytes or failed, the read or write has ended
\* with the device-disconnected SerialException, not with the IOException of a
\* failed wait, and its count is unchanged and not returned.
C15_EmptyTransferDisconnects ==
  (call.op \in {"read", "write"} /\ Transferred /\ call.bytes_now < 1) =>
    /\ call.pc = "done"
    /\ result = Thrown("SerialException", "device disconnected")
    /\ result.kind # "IOException"
    /\ call.count = call.before

\* C15 witness: a write that had already written part of its data found the
\* descriptor ready and wrote nothing.
C15_WriteToGoneDevice ==
  /\ call.op = "write" /\ call.r = "ready" /\ call.bytes_now = 0
  /\ call.before > 0
  /\ result.kind = "SerialException"

\* C16: when the pselect of a read or write loop fails with EINTR the call
\* goes on, with its count and its deadline unchanged and nothing returned,
\* and the next iteration computes the remaining time from that deadline and
\* the clock as it then is; when pselect fails with another code the call ends
\* with an IOException.
C16_InterruptedWaitRetried ==
  [][(read_loop \/ write_loop) =>
       /\ call'.remaining = Remaining
       /\ call'.timeout_endtime = call.timeout_endtime
       /\ call'.r = "error" =>
            IF call'.errno = "EINTR"
              THEN /\ Busy' /\ result' = Pending
                   /\ call'.count = call.count
              ELSE /\ ~Busy' /\ result' = Thrown("IOException", call'.errno)]_vars

\* C16 witness: a read that had been interrupted after taking part of its
\* bytes, some time into the call, went on and returned the full count.
C16_InterruptedThenCompleted ==
  /\ call.op = "read" /\ call.errno = "EINTR" /\ call.r = "ready"
  /\ call.before > 0 /\ clock > call.started
  /\ result = Returned(call.size)

AttrCalls == {"tcgetattr", "TIOCGSERIAL", "TIOCSSERIAL", "tcsetattr"}

EnumErrors == {"invalid char len", "invalid stop bit", "invalid parity"}

\* C17: an operation that fails with invalid_argument for a byte size, stop
\* bits or parity outside the enum has issued no tcgetattr, no TIOCGSERIAL /
\* TIOCSSERIAL and no tcsetattr on the descriptor.
C17_EnumCheckedBeforeOsCalls ==
  (result.kind = "invalid_argument" /\ result.what \in EnumErrors) =>
    \A i \in 1..Len(oscalls) : oscalls[i].call \notin AttrCalls

\* C18: an open or a setter whose port configuration ended in a tcsetattr the
\* OS rejected has failed with an IOException, and the open has not marked the
\* handle open.
C18_RejectedAttrSetFails ==
  (/\ lastOp \in SetterOps \cup {"open"}
   /\ oscalls # <<>>
   /\ oscalls[Len(oscalls)].call = "tcsetattr"
   /\ oscalls[Len(oscalls)].ret = -1) =>
    /\ result.kind = "IOException"
    /\ lastOp = "open" => ~isOpen

OpenFailures == {"open:EMFILE", "open:ENFILE", "open:ENOENT"}

\* C19: in an open that calls ::open, every attempt that fails with EINTR is
\* followed by another attempt; an attempt that fails with EMFILE or ENFILE
\* ends the open with the too-many-file-handles IOException and an attempt that
\* fails otherwise with an IOException of another description; after either
\* the handle is not open, fd_ is -1 and no descriptor was added.
C19_OpenFailures ==
  [][(lastOp' = "open" /\ oscalls' # <<>>) =>
       \A i \in 1..Len(oscalls') :
         /\ oscalls'[i].call = "open:EINTR" =>
              /\ i < Len(oscalls')
              /\ oscalls'[i + 1].call \in OpenFailures \cup {"open:EINTR", "open"}
         /\ oscalls'[i].call \in OpenFailures =>
              /\ i = Len(oscalls')
              /\ result'.kind = "IOException"
              /\ (result'.what = "Too many file handles open.")
                   <=> (oscalls'[i].call \in {"open:EMFILE", "open:ENFILE"})
              /\ fd_' = -1 /\ ~isOpen' /\ os_fds' = os_fds]_vars

\* C19 witness: an open was interrupted, tried again and hit the handle limit
\* of the process, on a handle that held a descriptor from an earlier open.
C19_InterruptedThenTooMany ==
  /\ lastOp = "open" /\ Len(oscalls) = 2
  /\ oscalls[1].call = "open:EINTR" /\ oscalls[2].call = "open:EMFILE"
  /\ result = Thrown("IOException", "Too many file handles open.")
  /\ fd_ = -1 /\ ~isOpen /\ os_fds # {}

ConfigOps == SetterOps \cup {"open"}

\* C20: xonxoff_ and rtscts_ are never both true, and after every open or
\* setter that configured the port and returned normally they are the pair
\* flowcontrol_ stands for: none, software only, hardware only.
C20_FlowFlagsExclusive ==
  /\ [](~(xonxoff_ /\ rtscts_))
  /\ [][(lastOp' \in ConfigOps /\ result'.kind = "ok" /\ oscalls' # <<>>) =>
          /\ xonxoff_' = (flowcontrol_' = "flowcontrol_software")
          /\ rtscts_' = (flowcontrol_' = "flowcontrol_hardware")]_vars

\* C20 witness: setFlowcontrol switched an open port to hardware flow control
\* and the device has CRTSCTS without IXON.
C20_SwitchedToHardware ==
  /\ lastOp = "setFlowcontrol" /\ result.kind = "ok" /\ isOpen
  /\ flowcontrol_ = "flowcontrol_hardware"
  /\ rtscts_ /\ ~xonxoff_ /\ tty.crtscts /\ ~tty.ixon

\* C21: a read of size 0 on an open handle, no OS call of it failing, returns 0
\* and raises no error, whether or not bytes are queued.
C21_ZeroSizeReadReturnsZero ==
  (/\ call.op = "read" /\ call.pc = "done" /\ call.size = 0
   /\ result.kind # "IOException" /\ call.bytes_now >= 0) =>
    result = Returned(0)

\* C22: when a read returns n, the n bytes it took from the input queue are
\* all the bytes it took, and positions 0..n-1 of the buffer hold them in queue
\* order, each once, the rest of the buffer untouched; when a write returns n
\* the device was handed bytes 0..n-1 of the caller's data, in order, each
\* once.
C22_BytesInOrder ==
  (call.pc = "done" /\ result.kind = "ok") =>
    /\ call.op = "read" =>
         /\ call.taken = result.value
         /\ call.buf = [i \in 1..call.size |->
                          IF i <= result.value THEN i ELSE 0]
    /\ call.op = "write" =>
         call.sent = [i \in 1..result.value |-> i]

\* C22 witness: a read of 2 bytes filled its buffer by two transfers of one
\* byte.
C22_FilledByTwoTransfers ==
  /\ call.pc = "done" /\ call.r = "ready" /\ call.size = 2
  /\ call.before = 1 /\ result = Returned(2)
  /\ call.op = "read" /\ call.buf = <<1, 2>>

\* C23: a profile setter that fails on an open handle leaves baudrate_,
\* parity_, bytesize_, stopbits_ and flowcontrol_ as they were before the
\* call.
C23_FailedSetterKeepsProfile ==
  [][(lastOp' \in SetterOps /\ isOpen /\ result'.kind # "ok") =>
       UNCHANGED profile]_vars

====
